---- MODULE Spec2Model ----
(***************************************************************************)
(* Session-scoped domain gateway of fastmcp-playground.                    *)
(*                                                                         *)
(* Two gateway variants are modelled side by side:                         *)
(*   "orchestrator"  src/src/orchestrator/orchestrator.py                  *)
(*                   (DomainScopeMiddleware, prefix check)                 *)
(*   "final"         src/orchestrator_final.py                             *)
(*                   (SimpleDomainMiddleware, DOMAIN_TOOLS whitelist)      *)
(* A behaviour is one gateway process of one variant serving a sequence of *)
(* requests (catalog listings and tool invocations) from several callers.  *)
(***************************************************************************)
EXTENDS Integers, Sequences, FiniteSets, TLC

VARIABLES
    variant,         \* which gateway module this process runs
    SESSION_DOMAIN,  \* dict[str, str]: session key -> selected domain
    response,        \* the request just served and its response, until the
                     \* transport has written it back to the caller
    acked,           \* history (SpecHistory): caller's session -> the domain
                     \* its most recent select_domain call confirmed, None
                     \* if that call did not return success or never happened
    succeeded,       \* history (SpecHistory): the callers' sessions that got
                     \* a success from select_domain at least once
    registry,        \* the module-level dict DOMAINS
    mounted,         \* the domains whose proxy main.mount() has mounted
    pc,              \* "setup", "check" (main_async's health check) or
                     \* "serving" (main.run)
    inflight,        \* SpecAsync: the requests suspended at an await
    silent,          \* the backends that accept a call and never answer
    DOMAIN_CLIENTS,  \* orchestrator_v2.py: the domains that have an entry in
                     \* the module-level dict DOMAIN_CLIENTS
    ready            \* test_orchestrator.py: the call of
                     \* wait_for_orchestrator_ready in progress

vars == <<variant, SESSION_DOMAIN, response, acked, succeeded,
          registry, mounted, pc, inflight, silent, DOMAIN_CLIENTS, ready>>

\* What request handling never assigns.
process == <<variant, mounted, pc, silent, DOMAIN_CLIENTS, ready>>

----------------------------------------------------------------------------
(* Python values *)

None == "<None>"

\* Python truthiness of an optional string: None and "" are falsy.
Truthy(v) == v # None /\ v # ""

\* str.startswith
startswith(s, prefix) ==
    /\ Len(s) >= Len(prefix)
    /\ SubSeq(s, 1, Len(prefix)) = prefix

\* dict.get(k, default)
DictGet(d, k, default) == IF k \in DOMAIN d THEN d[k] ELSE default

\* d[k] = v on a dict
DictPut(d, k, v) == [x \in (DOMAIN d) \cup {k} |-> IF x = k THEN v ELSE d[x]]

EmptyDict == <<>>

----------------------------------------------------------------------------
(* Configuration *)

Variants == {"orchestrator", "final"}

DOMAINS ==
    [d \in {"invoicing", "products", "users"} |->
        CASE d = "invoicing" -> "http://127.0.0.1:9101/mcp"
          [] d = "products"  -> "http://127.0.0.1:9102/mcp"
          [] d = "users"     -> "http://127.0.0.1:9103/mcp"]

\* dict insertion order of DOMAINS (list(DOMAINS.keys()), DOMAINS.items())
DomainsKeys == <<"invoicing", "products", "users">>

ORCHESTRATOR_TOOLS == {"list_domains", "get_session_status", "select_domain"}

\* Variant of DOMAIN_TOOLS in which the whitelist of users also names an
\* operation of invoicing.
DOMAIN_TOOLS_overlapping ==
    [d \in {"invoicing", "products", "users"} |->
        CASE d = "invoicing" -> {"invoicing_create_invoice",
                                 "invoicing_get_invoice",
                                 "invoicing_pay_invoice"}
          [] d = "products"  -> {"products_create_product",
                                 "products_get_product",
                                 "products_list_products"}
          [] d = "users"     -> {"users_create_user",
                                 "users_get_user",
                                 "invoicing_get_invoice"}]

\* SimpleDomainMiddleware.DOMAIN_TOOLS (orchestrator_final.py)
DOMAIN_TOOLS ==
    [d \in {"invoicing", "products", "users"} |->
        CASE d = "invoicing" -> {"invoicing_create_invoice",
                                 "invoicing_get_invoice",
                                 "invoicing_pay_invoice"}
          [] d = "products"  -> {"products_create_product",
                                 "products_get_product",
                                 "products_list_products"}
          [] d = "users"     -> {"users_create_user",
                                 "users_get_user",
                                 "users_list_users"}]

\* The tools each backend server declares, in declaration order.
BackendTools ==
    [d \in {"invoicing", "products", "users"} |->
        CASE d = "invoicing" -> <<"create_invoice", "get_invoice", "pay_invoice">>
          [] d = "products"  -> <<"search_products", "get_product", "check_stock">>
          [] d = "users"     -> <<"get_user", "update_email", "list_dependents">>]

\* Variant of MountedName that appends the domain instead of prefixing it.
MountedName_suffixed(prefix, name) == name \o "_" \o prefix

\* main.mount(proxy_server, prefix=domain_name): a backend tool is exposed
\* by the gateway as "<prefix>_<name>".
MountedName(prefix, name) == prefix \o "_" \o name

SeqToSet(s) == {s[i] : i \in 1..Len(s)}

\* Qualified operations of one mounted domain.
MountedTools(d) == {MountedName(d, n) : n \in SeqToSet(BackendTools[d])}

AllMountedTools == UNION {MountedTools(d) : d \in DOMAIN DOMAINS}

----------------------------------------------------------------------------
(* Requests *)

\* Number of distinct transport session identifiers in use.
MaxSessions == 2

SessionNames == <<"s1", "s2", "s3", "s4">>

\* ctx.session_id as the transport supplies it: absent, or an id.
SessionIds == {None} \cup {SessionNames[i] : i \in 1..MaxSessions}

\* ctx.client_id: absent or an id.  Client identifiers are taken to differ
\* from every transport session identifier.
ClientIds == {None, "c1"}

\* Argument of select_domain: the registry's names and unknown ones.
DomainArgs == (DOMAIN DOMAINS) \cup {"nonexistent"}

\* Names a client may ask to invoke: everything the gateway exposes, a
\* name only the whitelist of orchestrator_final.py knows, and a name that
\* exists nowhere.
ToolNames ==
    ORCHESTRATOR_TOOLS \cup AllMountedTools
        \cup {"products_create_product", "unknown_tool"}

\* The catalog call_next(ctx) delivers to on_list_tools: the gateway's own
\* tools and every mounted tool.  The framework fixes the order; both the
\* own-tools-first and the mounted-first order are considered.
OwnTools == <<"list_domains", "get_session_status", "select_domain">>

\* What the mounted proxies contribute to a listing when exactly the
\* backends in `up` are reachable: a backend that is down contributes no
\* operation and does not fail the listing.
MountedCatalogOf(up) ==
    LET Q(d) == IF d \in up
                THEN [i \in 1..Len(BackendTools[d]) |->
                         MountedName(d, BackendTools[d][i])]
                ELSE <<>>
    IN  Q(DomainsKeys[1]) \o Q(DomainsKeys[2]) \o Q(DomainsKeys[3])

MountedCatalog == MountedCatalogOf(DOMAIN DOMAINS)

\* The listings with every backend reachable.
FullCatalogs == {OwnTools \o MountedCatalog, MountedCatalog \o OwnTools}

\* What call_next can hand to on_list_tools: backends go down and come
\* back between any two requests, so each listing sees some set of them.
DownstreamCatalogs ==
    FullCatalogs \cup
    {OwnTools \o MountedCatalogOf(up) : up \in SUBSET (DOMAIN DOMAINS)}

\* The downstream listing included domain d's backend.
Reachable(d, downstream) == MountedTools(d) \subseteq SeqToSet(downstream)

\* The three list-changed notifications select_domain sends, in order.
Notifications == <<"tool_list_changed", "resource_list_changed",
                   "prompt_list_changed">>

\* Which of the sends raises (0: none).
FailAts == 0..Len(Notifications)

----------------------------------------------------------------------------
(* Session key resolution *)

\* Variant of ToolSessionKey that prefers the client identifier:
\* ctx.client_id or ctx.session_id or "default"
ToolSessionKey_client_first(sid, cid) ==
    IF Truthy(cid) THEN cid
    ELSE IF Truthy(sid) THEN sid
    ELSE "default"

\* Built-in tools: ctx.session_id or ctx.client_id or "default"
ToolSessionKey(sid, cid) ==
    IF Truthy(sid) THEN sid
    ELSE IF Truthy(cid) THEN cid
    ELSE "default"

\* Middleware: getattr(ctx.fastmcp_context, "session_id", None)
MiddlewareSessionId(sid) == sid

----------------------------------------------------------------------------
(* DomainScopeMiddleware (orchestrator.py) *)

\* Variant of is_allowed_tool that omits the prefix check: any selection
\* admits every tool.
is_allowed_tool_any_selection(tool_name, session_id, store) ==
    IF tool_name \in ORCHESTRATOR_TOOLS THEN TRUE
    ELSE IF ~Truthy(session_id) THEN FALSE
    ELSE Truthy(DictGet(store, session_id, None))

\* Variant of is_allowed_tool that applies the tools' sentinel key to a
\* request without session identifier.
is_allowed_tool_default_session(tool_name, session_id, store) ==
    IF tool_name \in ORCHESTRATOR_TOOLS THEN TRUE
    ELSE LET key == IF Truthy(session_id) THEN session_id ELSE "default"
             selected_domain == DictGet(store, key, None)
         IN  IF ~Truthy(selected_domain) THEN FALSE
             ELSE startswith(tool_name, selected_domain \o "_")

is_allowed_tool(tool_name, session_id, store) ==
    IF tool_name \in ORCHESTRATOR_TOOLS THEN TRUE
    ELSE IF ~Truthy(session_id) THEN FALSE
    ELSE LET selected_domain == DictGet(store, session_id, None)
         IN  IF ~Truthy(selected_domain) THEN FALSE
             ELSE startswith(tool_name, selected_domain \o "_")

\* Variant of DomainScope_on_list_tools that falls back to the unfiltered
\* listing when the filter leaves a session that has a selection with no
\* domain tool.
DomainScope_on_list_tools_fallback(tools, session_id, store) ==
    LET Allowed(t) == is_allowed_tool(t, session_id, store)
        filtered   == SelectSeq(tools, Allowed)
    IN  IF /\ Truthy(session_id)
           /\ session_id \in DOMAIN store
           /\ SeqToSet(filtered) \subseteq ORCHESTRATOR_TOOLS
        THEN tools
        ELSE filtered

DomainScope_on_list_tools(tools, session_id, store) ==
    LET Allowed(t) == is_allowed_tool(t, session_id, store)
    IN  SelectSeq(tools, Allowed)

Pass == [passed |-> TRUE, error |-> None, err_domain |-> None, err_tools |-> {}]

\* Variant of DomainScope_on_call_tool that admits every tool once the
\* session has a selection, while the listing keeps the prefix check.
DomainScope_on_call_tool_any_domain(tool_name, session_id, store) ==
    IF ~is_allowed_tool_any_selection(tool_name, session_id, store)
    THEN [passed     |-> FALSE,
          error      |-> "not_available_for_session",
          err_domain |-> DictGet(store,
                                 IF Truthy(session_id) THEN session_id ELSE "",
                                 "none"),
          err_tools  |-> {}]
    ELSE Pass

\* Variant of DomainScope_on_call_tool whose message does not report the
\* session's current domain.
DomainScope_on_call_tool_no_current_domain(tool_name, session_id, store) ==
    IF ~is_allowed_tool(tool_name, session_id, store)
    THEN [passed     |-> FALSE,
          error      |-> "not_available_for_session",
          err_domain |-> "none",
          err_tools  |-> {}]
    ELSE Pass

DomainScope_on_call_tool(tool_name, session_id, store) ==
    IF ~is_allowed_tool(tool_name, session_id, store)
    THEN [passed     |-> FALSE,
          error      |-> "not_available_for_session",
          err_domain |-> DictGet(store,
                                 IF Truthy(session_id) THEN session_id ELSE "",
                                 "none"),
          err_tools  |-> {}]
    ELSE Pass

----------------------------------------------------------------------------
(* SimpleDomainMiddleware (orchestrator_final.py) *)

\* Variant of SimpleDomain_on_list_tools that replaces the list by the
\* domain's tools instead of extending it.
SimpleDomain_on_list_tools_replacing(all_tools, session_id, store) ==
    LET IsOrch(t) == t \in ORCHESTRATOR_TOOLS
    IN  IF Truthy(session_id) /\ session_id \in DOMAIN store
        THEN LET InDomain(t) == t \in DOMAIN_TOOLS[store[session_id]]
             IN  SelectSeq(all_tools, InDomain)
        ELSE SelectSeq(all_tools, IsOrch)

SimpleDomain_on_list_tools(all_tools, session_id, store) ==
    LET IsOrch(t) == t \in ORCHESTRATOR_TOOLS
        filtered_tools == SelectSeq(all_tools, IsOrch)
    IN  IF Truthy(session_id) /\ session_id \in DOMAIN store
        THEN LET selected_domain == store[session_id]
             IN  IF selected_domain \in DOMAIN DOMAIN_TOOLS
                 THEN LET InDomain(t) == t \in DOMAIN_TOOLS[selected_domain]
                      IN  filtered_tools \o SelectSeq(all_tools, InDomain)
                 ELSE filtered_tools
        ELSE filtered_tools

\* Variant of SimpleDomain_on_call_tool that checks the session before
\* the built-in names.
SimpleDomain_on_call_tool_session_first(tool_name, session_id, store) ==
    IF ~Truthy(session_id) \/ session_id \notin DOMAIN store
    THEN [passed |-> FALSE, error |-> "no_domain_selected",
          err_domain |-> None, err_tools |-> {}]
    ELSE IF tool_name \in ORCHESTRATOR_TOOLS THEN Pass
    ELSE IF tool_name \notin DOMAIN_TOOLS[store[session_id]]
    THEN [passed     |-> FALSE,
          error      |-> "not_available_in_domain",
          err_domain |-> store[session_id],
          err_tools  |-> DOMAIN_TOOLS[store[session_id]]]
    ELSE Pass

SimpleDomain_on_call_tool(tool_name, session_id, store) ==
    IF tool_name \in ORCHESTRATOR_TOOLS THEN Pass
    ELSE IF ~Truthy(session_id) \/ session_id \notin DOMAIN store
    THEN [passed |-> FALSE, error |-> "no_domain_selected",
          err_domain |-> None, err_tools |-> {}]
    ELSE LET selected_domain == store[session_id]
         IN  IF /\ selected_domain \in DOMAIN DOMAIN_TOOLS
                /\ tool_name \notin DOMAIN_TOOLS[selected_domain]
             THEN [passed     |-> FALSE,
                   error      |-> "not_available_in_domain",
                   err_domain |-> selected_domain,
                   err_tools  |-> DOMAIN_TOOLS[selected_domain]]
             ELSE Pass

----------------------------------------------------------------------------
(* The middleware of the running variant *)

on_list_tools(v, tools, session_id, store) ==
    IF v = "orchestrator"
    THEN DomainScope_on_list_tools(tools, session_id, store)
    ELSE SimpleDomain_on_list_tools(tools, session_id, store)

on_call_tool(v, tool_name, session_id, store) ==
    IF v = "orchestrator"
    THEN DomainScope_on_call_tool(tool_name, session_id, store)
    ELSE SimpleDomain_on_call_tool(tool_name, session_id, store)

----------------------------------------------------------------------------
(* sorted() on strings *)

Alphabet == "0123456789_abcdefghijklmnopqrstuvwxyz"

Ord(c) == CHOOSE i \in 1..Len(Alphabet) : SubSeq(Alphabet, i, i) = c

RECURSIVE StrLess(_, _)
StrLess(a, b) ==
    IF a = "" THEN b # ""
    ELSE IF b = "" THEN FALSE
    ELSE LET x == Ord(SubSeq(a, 1, 1))
             y == Ord(SubSeq(b, 1, 1))
         IN  IF x = y
             THEN StrLess(SubSeq(a, 2, Len(a)), SubSeq(b, 2, Len(b)))
             ELSE x < y

\* Variant of sorted that returns the elements in descending order.
RECURSIVE sorted_descending(_)
sorted_descending(S) ==
    IF S = {} THEN <<>>
    ELSE LET x == CHOOSE y \in S : \A z \in S \ {y} : StrLess(z, y)
         IN  <<x>> \o sorted_descending(S \ {x})

RECURSIVE sorted(_)
sorted(S) ==
    IF S = {} THEN <<>>
    ELSE LET m == CHOOSE x \in S : \A y \in S \ {x} : StrLess(x, y)
         IN  <<m>> \o sorted(S \ {m})

----------------------------------------------------------------------------
(* Built-in tools *)

NoResult == [status |-> None]

list_domains == [status |-> "ok", domains |-> sorted(DOMAIN DOMAINS)]

get_session_status(v, sid, cid, store) ==
    LET session_id      == ToolSessionKey(sid, cid)
        selected_domain == DictGet(store, session_id, None)
    IN  [session_id        |-> session_id,
         selected_domain   |-> selected_domain,
         available_domains |-> IF v = "orchestrator" THEN DomainsKeys
                               ELSE sorted(DOMAIN DOMAINS),
         status            |-> IF Truthy(selected_domain) THEN "active"
                               ELSE "no_domain_selected"]

\* Variant of orchestrator_select_domain that sends the notifications
\* first and validates the domain afterwards.
orchestrator_select_domain_notify_first(domain, sid, cid, fail_at, store) ==
    LET session_id == ToolSessionKey(sid, cid)
    IN  IF domain \notin DOMAIN DOMAINS
        THEN [store |-> store, error |-> "invalid_domain",
              result |-> NoResult, notifications |-> Notifications]
        ELSE IF fail_at > 0
        THEN [store |-> DictPut(store, session_id, domain),
              error |-> "notification_failed",
              result |-> NoResult,
              notifications |-> SubSeq(Notifications, 1, fail_at - 1)]
        ELSE [store |-> DictPut(store, session_id, domain),
              error |-> None,
              result |-> [status |-> "success", session_id |-> session_id,
                          selected_domain |-> domain],
              notifications |-> Notifications]

\* Variant of orchestrator_select_domain whose store write is not a single
\* assignment: it leaves a partial value in the entry.
orchestrator_select_domain_torn(domain, sid, cid, fail_at, store) ==
    LET session_id == ToolSessionKey(sid, cid)
    IN  IF domain \notin DOMAIN DOMAINS
        THEN [store |-> store, error |-> "invalid_domain",
              result |-> NoResult, notifications |-> <<>>]
        ELSE [store |-> DictPut(store, session_id, SubSeq(domain, 1, 3)),
              error |-> None,
              result |-> [status |-> "success", session_id |-> session_id,
                          selected_domain |-> domain],
              notifications |-> Notifications]

\* Variant of orchestrator_select_domain that stores the selection before
\* it validates the domain.
orchestrator_select_domain_store_first(domain, sid, cid, fail_at, store) ==
    LET session_id == ToolSessionKey(sid, cid)
        written    == DictPut(store, session_id, domain)
    IN  IF domain \notin DOMAIN DOMAINS
        THEN [store |-> written, error |-> "invalid_domain",
              result |-> NoResult, notifications |-> <<>>]
        ELSE IF fail_at > 0
        THEN [store |-> written, error |-> "notification_failed",
              result |-> NoResult,
              notifications |-> SubSeq(Notifications, 1, fail_at - 1)]
        ELSE [store |-> written, error |-> None,
              result |-> [status |-> "success", session_id |-> session_id,
                          selected_domain |-> domain],
              notifications |-> Notifications]

\* Variant of orchestrator_select_domain that drops the session's selection
\* when the requested domain is unknown.
orchestrator_select_domain_clearing(domain, sid, cid, fail_at, store) ==
    LET session_id == ToolSessionKey(sid, cid)
    IN  IF domain \notin DOMAIN DOMAINS
        THEN [store |-> [k \in (DOMAIN store) \ {session_id} |-> store[k]],
              error |-> "invalid_domain",
              result |-> NoResult, notifications |-> <<>>]
        ELSE IF fail_at > 0
        THEN [store |-> DictPut(store, session_id, domain),
              error |-> "notification_failed",
              result |-> NoResult,
              notifications |-> SubSeq(Notifications, 1, fail_at - 1)]
        ELSE [store |-> DictPut(store, session_id, domain),
              error |-> None,
              result |-> [status |-> "success", session_id |-> session_id,
                          selected_domain |-> domain],
              notifications |-> Notifications]

\* orchestrator.py: validate, store, send the three notifications, return.
\* fail_at > 0: the fail_at-th send raises after the store was written.
orchestrator_select_domain(domain, sid, cid, fail_at, store) ==
    LET session_id == ToolSessionKey(sid, cid)
    IN  IF domain \notin DOMAIN DOMAINS
        THEN [store |-> store, error |-> "invalid_domain",
              result |-> NoResult, notifications |-> <<>>]
        ELSE IF fail_at > 0
        THEN [store |-> DictPut(store, session_id, domain),
              error |-> "notification_failed",
              result |-> NoResult,
              notifications |-> SubSeq(Notifications, 1, fail_at - 1)]
        ELSE [store |-> DictPut(store, session_id, domain),
              error |-> None,
              result |-> [status |-> "success", session_id |-> session_id,
                          selected_domain |-> domain],
              notifications |-> Notifications]

\* Variant of final_select_domain without the registry check.
final_select_domain_unvalidated(domain, sid, cid, store) ==
    LET session_id == ToolSessionKey(sid, cid)
    IN  [store |-> DictPut(store, session_id, domain),
         error |-> None,
         result |-> [status |-> "success", session_id |-> session_id,
                     selected_domain |-> domain],
         notifications |-> <<>>]

\* Variant of final_select_domain that makes the selection process-wide:
\* every session already in the store is moved to the new domain.
final_select_domain_global(domain, sid, cid, store) ==
    IF domain \notin DOMAIN DOMAINS
    THEN [store |-> store, error |-> None,
          result |-> [status |-> "error", message |-> "unknown_domain"],
          notifications |-> <<>>]
    ELSE LET session_id == ToolSessionKey(sid, cid)
         IN  [store |-> [k \in (DOMAIN store) \cup {session_id} |-> domain],
              error |-> None,
              result |-> [status |-> "success", session_id |-> session_id,
                          selected_domain |-> domain],
              notifications |-> <<>>]

\* orchestrator_final.py: validate (error result, no exception), store,
\* return; no notification is sent.
final_select_domain(domain, sid, cid, store) ==
    IF domain \notin DOMAIN DOMAINS
    THEN [store |-> store, error |-> None,
          result |-> [status |-> "error", message |-> "unknown_domain"],
          notifications |-> <<>>]
    ELSE LET session_id == ToolSessionKey(sid, cid)
         IN  [store |-> DictPut(store, session_id, domain),
              error |-> None,
              result |-> [status |-> "success", session_id |-> session_id,
                          selected_domain |-> domain],
              notifications |-> <<>>]

select_domain(v, domain, sid, cid, fail_at, store) ==
    IF v = "orchestrator"
    THEN orchestrator_select_domain(domain, sid, cid, fail_at, store)
    ELSE final_select_domain(domain, sid, cid, store)

\* Variant of domains_after_select_domain that registers a requested name
\* the registry does not have.
domains_after_select_domain_registering(v, domain, domains) ==
    IF domain \in DOMAIN domains THEN domains
    ELSE [d \in (DOMAIN domains) \cup {domain} |->
             IF d \in DOMAIN domains THEN domains[d]
             ELSE "http://127.0.0.1:9100/mcp"]

\* The module global DOMAINS after a select_domain call: both variants only
\* read it (`if domain not in DOMAINS`).
domains_after_select_domain(v, domain, domains) == domains

----------------------------------------------------------------------------
(* Startup *)

\* setup_domain_servers: one try/except per domain inside the loop over
\* DOMAINS.items(); a domain whose mount raised (`raising`) is skipped with
\* a warning and the loop continues.  Nothing mounts a domain later.
RECURSIVE setup_loop(_, _, _)
setup_loop(i, raising, done) ==
    IF i > Len(DomainsKeys) THEN done
    ELSE setup_loop(i + 1, raising,
                    IF DomainsKeys[i] \in raising THEN done
                    ELSE done \cup {DomainsKeys[i]})

setup_domain_servers(raising) == setup_loop(1, raising, {})

\* check_domain_servers: for each domain, status[domain] = True when
\* client.list_tools() answered, False when anything raised (`up`: the
\* backends that answer).
RECURSIVE check_loop(_, _, _)
check_loop(i, up, status) ==
    IF i > Len(DomainsKeys) THEN status
    ELSE check_loop(i + 1, up,
                    DictPut(status, DomainsKeys[i], DomainsKeys[i] \in up))

check_domain_servers(up) == check_loop(1, up, EmptyDict)

----------------------------------------------------------------------------
(* Dispatch of a mounted tool to its backend *)

\* The mount whose prefix qualifies the tool: <<domain, backend name>>,
\* or <<>> when no mounted server declares it.
MountOf(tool_name) ==
    LET hits == {dn \in (DOMAIN DOMAINS) \X
                        UNION {SeqToSet(BackendTools[d]) : d \in DOMAIN DOMAINS} :
                    /\ dn[2] \in SeqToSet(BackendTools[dn[1]])
                    /\ MountedName(dn[1], dn[2]) = tool_name}
    IN  IF hits = {} THEN <<>> ELSE CHOOSE h \in hits : TRUE

----------------------------------------------------------------------------
(* State *)

\* The session a caller belongs to (spec.md section 3): the transport's
\* session identifier, or the sentinel when there is none.  Used only to
\* key the history variable acked, never by the handlers.
CallerSession(sid) == IF Truthy(sid) THEN sid ELSE "default"

CallerSessions == {CallerSession(sid) : sid \in SessionIds}

NoRequest ==
    [kind          |-> "init",
     sid           |-> None,
     cid           |-> None,
     tool          |-> None,
     arg           |-> None,
     passed        |-> FALSE,
     error         |-> None,
     err_domain    |-> None,
     err_tools     |-> {},
     downstream    |-> <<>>,
     tools         |-> <<>>,
     result        |-> NoResult,
     forwarded     |-> <<>>,
     notifications |-> <<>>]

\* No call of wait_for_orchestrator_ready is in progress.
NotWaiting ==
    [pc |-> "idle", max_retries |-> 0, i |-> 0, attempt |-> 0,
     connections |-> 0, result |-> None]

\* The module globals as the import leaves them.
InitGlobals ==
    /\ variant \in Variants
    /\ SESSION_DOMAIN = EmptyDict
    /\ response = NoRequest
    /\ acked = [k \in CallerSessions |-> None]
    /\ succeeded = {}
    /\ registry = DOMAINS
    /\ inflight = {}
    /\ DOMAIN_CLIENTS = {}
    /\ ready = NotWaiting

\* A gateway that mounted every domain and is serving; every backend
\* answers or refuses.
Init ==
    /\ InitGlobals
    /\ mounted = DOMAIN DOMAINS
    /\ pc = "serving"
    /\ silent = {}

----------------------------------------------------------------------------
(* Request handling *)

\* The gateway takes the next request; handlers run to completion.
Idle == response = NoRequest

\* tools/list: call_next delivers the downstream catalog, the middleware
\* filters it.  call_next returns once every mounted proxy has answered or
\* failed; no call carries a timeout of the gateway's own.
ListTools(sid, cid, downstream) ==
    /\ Idle
    /\ \A d \in DOMAIN DOMAINS : Reachable(d, downstream) => d \in mounted
    /\ mounted \cap silent = {}
    /\ response' = [NoRequest EXCEPT
            !.kind       = "list_tools",
            !.sid        = sid,
            !.cid        = cid,
            !.passed     = TRUE,
            !.downstream = downstream,
            !.tools      = on_list_tools(variant, downstream,
                                         MiddlewareSessionId(sid),
                                         SESSION_DOMAIN)]
    /\ UNCHANGED <<process, registry, SESSION_DOMAIN, acked, succeeded, inflight>>

\* The part of a tools/call response the middleware decides.
Called(sid, cid, tool_name, decision) ==
    [NoRequest EXCEPT
        !.kind       = "call_tool",
        !.sid        = sid,
        !.cid        = cid,
        !.tool       = tool_name,
        !.passed     = decision.passed,
        !.error      = decision.error,
        !.err_domain = decision.err_domain,
        !.err_tools  = decision.err_tools]

\* tools/call list_domains
ListDomains(sid, cid) ==
    LET decision == on_call_tool(variant, "list_domains",
                                 MiddlewareSessionId(sid), SESSION_DOMAIN)
        r == Called(sid, cid, "list_domains", decision)
    IN  /\ Idle
        /\ response' = IF decision.passed
                   THEN [r EXCEPT !.result = list_domains]
                   ELSE r
        /\ UNCHANGED <<process, registry, SESSION_DOMAIN, acked, succeeded, inflight>>

\* tools/call get_session_status
GetSessionStatus(sid, cid) ==
    LET decision == on_call_tool(variant, "get_session_status",
                                 MiddlewareSessionId(sid), SESSION_DOMAIN)
        r == Called(sid, cid, "get_session_status", decision)
    IN  /\ Idle
        /\ response' = IF decision.passed
                   THEN [r EXCEPT !.result =
                            get_session_status(variant, sid, cid, SESSION_DOMAIN)]
                   ELSE r
        /\ UNCHANGED <<process, registry, SESSION_DOMAIN, acked, succeeded, inflight>>

\* tools/call select_domain {"domain": domain}
SelectDomainStep(sid, cid, domain, fail_at) ==
    LET decision == on_call_tool(variant, "select_domain",
                                 MiddlewareSessionId(sid), SESSION_DOMAIN)
        r == [Called(sid, cid, "select_domain", decision) EXCEPT !.arg = domain]
        out == select_domain(variant, domain, sid, cid, fail_at, SESSION_DOMAIN)
    IN  /\ Idle
        /\ (variant # "orchestrator" \/ domain \notin DOMAIN DOMAINS)
                => fail_at = 0
        /\ IF decision.passed
           THEN /\ SESSION_DOMAIN' = out.store
                /\ response' = [r EXCEPT !.error         = out.error,
                                         !.result        = out.result,
                                         !.notifications = out.notifications]
           ELSE /\ response' = r
                /\ UNCHANGED SESSION_DOMAIN
        /\ registry' = IF decision.passed
                       THEN domains_after_select_domain(variant, domain, registry)
                       ELSE registry
        /\ UNCHANGED <<process, inflight>>

SelectDomain(sid, cid, domain, fail_at) ==
    /\ SelectDomainStep(sid, cid, domain, fail_at)
    /\ UNCHANGED <<acked, succeeded>>

\* The same request, with the history variables recording what the caller
\* was told.
SelectDomainRecorded(sid, cid, domain, fail_at) ==
    /\ SelectDomainStep(sid, cid, domain, fail_at)
    /\ LET ok == response'.result.status = "success"
       IN  /\ acked' = [acked EXCEPT ![CallerSession(sid)] =
                            IF ok THEN domain ELSE None]
           /\ succeeded' = IF ok THEN succeeded \cup {CallerSession(sid)}
                           ELSE succeeded

\* tools/call of any other name: a tool of a mounted proxy is forwarded to
\* its backend under its unqualified name, any other name is unknown.
\* backend_up: the backend answers the forwarded call (FALSE: the call
\* raises); a silent backend does neither and the await does not return.
InvokeTool(sid, cid, tool_name, backend_up) ==
    LET decision == on_call_tool(variant, tool_name,
                                 MiddlewareSessionId(sid), SESSION_DOMAIN)
        r == Called(sid, cid, tool_name, decision)
        mount == MountOf(tool_name)
        known == mount # <<>> /\ mount[1] \in mounted
    IN  /\ Idle
        /\ tool_name \notin ORCHESTRATOR_TOOLS
        /\ ~(decision.passed /\ known) => backend_up
        /\ (decision.passed /\ known) => mount[1] \notin silent
        /\ response' = IF ~decision.passed THEN r
                   ELSE IF ~known
                   THEN [r EXCEPT !.error = "unknown_tool"]
                   ELSE IF ~backend_up
                   THEN [r EXCEPT !.forwarded = mount,
                                  !.error = "backend_unavailable"]
                   ELSE [r EXCEPT !.forwarded = mount,
                                  !.result = [status |-> "backend_result"]]
        /\ UNCHANGED <<process, registry, SESSION_DOMAIN, acked, succeeded, inflight>>

\* The transport writes the response back to the caller.
Respond ==
    /\ ~Idle
    /\ response' = NoRequest
    /\ UNCHANGED <<process, registry, SESSION_DOMAIN, acked, succeeded, inflight>>

Next ==
    \/ \E sid \in SessionIds, cid \in ClientIds, ds \in DownstreamCatalogs :
          ListTools(sid, cid, ds)
    \/ \E sid \in SessionIds, cid \in ClientIds : ListDomains(sid, cid)
    \/ \E sid \in SessionIds, cid \in ClientIds : GetSessionStatus(sid, cid)
    \/ \E sid \in SessionIds, cid \in ClientIds, d \in DomainArgs,
          f \in FailAts : SelectDomain(sid, cid, d, f)
    \/ \E sid \in SessionIds, cid \in ClientIds, t \in ToolNames,
          up \in BOOLEAN : InvokeTool(sid, cid, t, up)
    \/ Respond

Spec == Init /\ [][Next]_vars

\* The same gateway with the history variables maintained.
NextHistory ==
    \/ \E sid \in SessionIds, cid \in ClientIds, ds \in DownstreamCatalogs :
          ListTools(sid, cid, ds)
    \/ \E sid \in SessionIds, cid \in ClientIds : ListDomains(sid, cid)
    \/ \E sid \in SessionIds, cid \in ClientIds : GetSessionStatus(sid, cid)
    \/ \E sid \in SessionIds, cid \in ClientIds, d \in DomainArgs,
          f \in FailAts : SelectDomainRecorded(sid, cid, d, f)
    \/ \E sid \in SessionIds, cid \in ClientIds, t \in ToolNames,
          up \in BOOLEAN : InvokeTool(sid, cid, t, up)
    \/ Respond

SpecHistory == Init /\ [][NextHistory]_vars

----------------------------------------------------------------------------
(* Qualification of backend operation names *)

\* Words a backend operation name is made of here, the separator included
\* in any position: the domain names, the words of the built-ins' names,
\* and others.
NameParts == {"", "invoicing", "products", "users", "list", "domains",
              "get", "session", "status", "select", "domain", "x"}

BackendNames ==
    UNION {SeqToSet(BackendTools[d]) : d \in DOMAIN DOMAINS}
        \cup {"session_status"}
        \cup {a \o "_" \o b : a \in NameParts, b \in NameParts}
        \cup (NameParts \ {""})

\* A backend of domain d declares an operation `name`; the gateway exposes
\* it under its qualified name.
Qualify(d, name) ==
    /\ Idle
    /\ response' = [NoRequest EXCEPT
            !.kind = "qualify",
            !.arg  = d,
            !.tool = MountedName(d, name)]
    /\ UNCHANGED <<process, registry, SESSION_DOMAIN, acked, succeeded, inflight>>

NextNames ==
    \/ \E d \in DOMAIN DOMAINS, name \in BackendNames : Qualify(d, name)
    \/ Respond

SpecNames == Init /\ [][NextNames]_vars

----------------------------------------------------------------------------
(* The process from its start *)

InitLifecycle ==
    /\ InitGlobals
    /\ mounted = {}
    /\ pc = "setup"
    /\ silent = {}

\* setup_domain_servers(); orchestrator.py then awaits check_domain_servers
\* in main_async, orchestrator_final.py goes straight to main.run.
SetupDomainServers(raising) ==
    /\ pc = "setup"
    /\ mounted' = setup_domain_servers(raising)
    /\ pc' = IF variant = "orchestrator" THEN "check" ELSE "serving"
    /\ UNCHANGED <<variant, registry, SESSION_DOMAIN, response, acked,
                   succeeded, inflight, silent, DOMAIN_CLIENTS, ready>>

\* status = await check_domain_servers(); the map is logged, not kept.
\* `up`: the backends whose list_tools answers; the others raise.  The
\* await returns once every backend has done one or the other.
CheckDomainServers(up) ==
    /\ pc = "check"
    /\ Idle
    /\ (DOMAIN DOMAINS) \cap silent = {}
    /\ response' = [NoRequest EXCEPT
            !.kind   = "check_domain_servers",
            !.result = [status   |-> "checked",
                        answered |-> up,
                        health   |-> check_domain_servers(up)]]
    /\ pc' = "serving"
    /\ UNCHANGED <<variant, registry, mounted, SESSION_DOMAIN, acked,
                   succeeded, inflight, silent, DOMAIN_CLIENTS, ready>>

Serving == pc = "serving"

\* Requests of callers that supply a session identifier or none, with
\* every notification delivered.
NextLifecycle ==
    \/ \E raising \in SUBSET (DOMAIN DOMAINS) : SetupDomainServers(raising)
    \/ \E up \in SUBSET (DOMAIN DOMAINS) : CheckDomainServers(up)
    \/ Serving /\ \E sid \in SessionIds, ds \in DownstreamCatalogs :
          ListTools(sid, None, ds)
    \/ Serving /\ \E sid \in SessionIds : ListDomains(sid, None)
    \/ Serving /\ \E sid \in SessionIds : GetSessionStatus(sid, None)
    \/ Serving /\ \E sid \in SessionIds, d \in DomainArgs :
          SelectDomain(sid, None, d, 0)
    \/ Serving /\ \E sid \in SessionIds, t \in AllMountedTools, up \in BOOLEAN :
          InvokeTool(sid, None, t, up)
    \/ Respond

SpecLifecycle == InitLifecycle /\ [][NextLifecycle]_vars

\* The same start with a backend that never answers.
SilentBackends == {{}} \cup {{d} : d \in DOMAIN DOMAINS}

InitLifecycleSilent ==
    /\ InitGlobals
    /\ mounted = {}
    /\ pc = "setup"
    /\ silent \in SilentBackends

\* asyncio.run and main.run keep running whatever is runnable.
SpecLifecycleFair ==
    InitLifecycleSilent /\ [][NextLifecycle]_vars /\ WF_vars(NextLifecycle)

----------------------------------------------------------------------------
(* Concurrent requests: the handlers as coroutines on one event loop *)

\* A handler runs without interruption from one await to the next.  A
\* request is in flight while its handler is suspended:
\*   "call_next"  at `await call_next(ctx)` (the tool, the backend or the
\*                downstream listing has not returned yet)
\*   "backend"    an invocation, still at `await call_next(ctx)`, after the
\*                mounted proxy has sent the call to its backend
\*   "notify"     select_domain of orchestrator.py, after the store write,
\*                at `await ctx.send_*_list_changed()`
\* A rejected invocation raises before any await and is never in flight.
MaxInflight == 2

\* Concurrency is between callers the transport gave a session identifier.
Sessions == SessionIds \ {None}

\* One operation of each of two domains decides every case of the
\* middleware's check: no selection, the tool's domain, another domain.
AsyncTools ==
    {MountedName(DomainsKeys[i], BackendTools[DomainsKeys[i]][1]) : i \in 1..2}

Request(kind, sid, arg, stage) ==
    [kind |-> kind, sid |-> sid, arg |-> arg, stage |-> stage]

RequestRecords ==
    {Request("list_tools", sid, None, "call_next") : sid \in Sessions}
    \cup {Request("get_session_status", sid, None, "call_next") : sid \in Sessions}
    \cup {Request("call_tool", sid, t, st) :
            sid \in Sessions, t \in AsyncTools, st \in {"call_next", "backend"}}
    \cup {Request("select_domain", sid, d, st) :
            sid \in Sessions, d \in DomainArgs, st \in {"call_next", "notify"}}

\* The handler ran up to its first await.  Two in-flight requests equal in
\* every field are one record.
Admit(r) ==
    /\ Serving
    /\ Cardinality(inflight) < MaxInflight
    /\ r \notin inflight
    /\ inflight' = inflight \cup {r}
    /\ UNCHANGED <<process, registry, SESSION_DOMAIN, response, acked, succeeded>>

\* The awaited call returned and the handler ran to its end.
Leave(r) ==
    /\ r \in inflight
    /\ inflight' = inflight \ {r}
    /\ UNCHANGED <<process, registry, SESSION_DOMAIN, response, acked, succeeded>>

AcceptListTools(sid) == Admit(Request("list_tools", sid, None, "call_next"))

\* on_list_tools resumes with the downstream listing and filters it by the
\* store as it is then.
FinishListTools(r) ==
    /\ r.kind = "list_tools"
    /\ mounted \cap silent = {}
    /\ Leave(r)

\* on_call_tool checks the store before it awaits the backend.
AcceptInvokeTool(sid, tool_name) ==
    /\ on_call_tool(variant, tool_name, MiddlewareSessionId(sid),
                    SESSION_DOMAIN).passed
    /\ Admit(Request("call_tool", sid, tool_name, "call_next"))

\* Inside call_next the mounted proxy opens its client to the backend and
\* sends the call; the handler stays suspended and nothing looks at the
\* store again.
DispatchInvokeTool(r) ==
    LET dispatched == [r EXCEPT !.stage = "backend"]
    IN  /\ r \in inflight
        /\ r.kind = "call_tool"
        /\ r.stage = "call_next"
        /\ dispatched \notin inflight
        /\ inflight' = (inflight \ {r}) \cup {dispatched}
        /\ UNCHANGED <<process, registry, SESSION_DOMAIN, response, acked,
                       succeeded>>

\* The backend answered, or the call to it raised.
FinishInvokeTool(r) ==
    /\ r.kind = "call_tool"
    /\ r.stage = "backend"
    /\ MountOf(r.arg)[1] \notin silent
    /\ Leave(r)

AcceptGetSessionStatus(sid) ==
    Admit(Request("get_session_status", sid, None, "call_next"))

\* The tool body reads the store and returns.
RunGetSessionStatus(r) ==
    /\ r.kind = "get_session_status"
    /\ Leave(r)

AcceptSelectDomain(sid, domain) ==
    Admit(Request("select_domain", sid, domain, "call_next"))

\* The tool body: validate and write the store without an await between;
\* orchestrator.py then awaits the notifications, orchestrator_final.py
\* returns.
RunSelectDomain(r) ==
    LET out == select_domain(variant, r.arg, r.sid, None, 0, SESSION_DOMAIN)
        notifying == [r EXCEPT !.stage = "notify"]
    IN  /\ r \in inflight
        /\ r.kind = "select_domain"
        /\ r.stage = "call_next"
        /\ SESSION_DOMAIN' = out.store
        /\ registry' = domains_after_select_domain(variant, r.arg, registry)
        /\ IF variant = "orchestrator" /\ out.error = None
           THEN /\ notifying \notin inflight
                /\ inflight' = (inflight \ {r}) \cup {notifying}
           ELSE inflight' = inflight \ {r}
        /\ UNCHANGED <<process, response, acked, succeeded>>

\* The notifications were sent, or one raised; either way the call ends.
FinishSelectDomain(r) ==
    /\ r.kind = "select_domain"
    /\ r.stage = "notify"
    /\ Leave(r)

\* What the event loop can run for request r.
Resume(r) ==
    \/ FinishListTools(r)
    \/ DispatchInvokeTool(r)
    \/ FinishInvokeTool(r)
    \/ RunGetSessionStatus(r)
    \/ RunSelectDomain(r)
    \/ FinishSelectDomain(r)

NextAsync ==
    \/ \E sid \in Sessions : AcceptListTools(sid)
    \/ \E sid \in Sessions, t \in AsyncTools : AcceptInvokeTool(sid, t)
    \/ \E sid \in Sessions : AcceptGetSessionStatus(sid)
    \/ \E sid \in Sessions, d \in DomainArgs : AcceptSelectDomain(sid, d)
    \/ \E r \in inflight : FinishListTools(r)
    \/ \E r \in inflight : DispatchInvokeTool(r)
    \/ \E r \in inflight : FinishInvokeTool(r)
    \/ \E r \in inflight : RunGetSessionStatus(r)
    \/ \E r \in inflight : RunSelectDomain(r)
    \/ \E r \in inflight : FinishSelectDomain(r)

SpecAsync == Init /\ [][NextAsync]_vars

InitSilent ==
    /\ InitGlobals
    /\ mounted = DOMAIN DOMAINS
    /\ pc = "serving"
    /\ silent \in SilentBackends

\* The event loop resumes every coroutine whose awaited call has returned.
SpecAsyncFair ==
    /\ InitSilent
    /\ [][NextAsync]_vars
    /\ \A r \in RequestRecords : WF_vars(Resume(r))

----------------------------------------------------------------------------
(* orchestrator_v2.py: no middleware, list_available_tools instead *)

V2_ORCHESTRATOR_TOOLS ==
    <<"list_domains", "get_session_status", "select_domain",
      "list_available_tools">>

\* setup_domain_clients: DOMAIN_CLIENTS[domain_name] = client for every
\* domain whose transport and client could be constructed.
setup_domain_clients(raising) == setup_loop(1, raising, {})

\* How the block `async with client: tools = await client.list_tools()`
\* can go: it completes, it raises on entering or in list_tools, or
\* it raises on leaving, after the listing was stored in the result.
ClientOutcomes == {"completes", "raises_inside", "raises_on_exit"}

\* What the backend of domain d may list: its tools, some of them, none.
BackendListings(d) ==
    {BackendTools[d], SubSeq(BackendTools[d], 1, 1), <<>>}

NoAvailableTools ==
    [status |-> None, session_id |-> None, selected_domain |-> None,
     orchestrator_tools |-> <<>>, domain_tools |-> <<>>, error |-> None]

\* Variant of list_available_tools that reports the backend's names as
\* the backend declares them.
list_available_tools_unprefixed(sid, cid, store, clients, outcome, tools) ==
    LET session_id == ToolSessionKey(sid, cid)
        selected_domain == DictGet(store, session_id, None)
        result == [NoAvailableTools EXCEPT
                      !.status             = "returned",
                      !.session_id         = session_id,
                      !.selected_domain    = selected_domain,
                      !.orchestrator_tools = V2_ORCHESTRATOR_TOOLS]
    IN  IF Truthy(selected_domain) /\ selected_domain \in clients
        THEN CASE outcome = "raises_inside" ->
                    [result EXCEPT !.error = "exception"]
               [] outcome = "raises_on_exit" ->
                    [result EXCEPT !.domain_tools = tools,
                                   !.error = "exception"]
               [] OTHER ->
                    [result EXCEPT !.domain_tools = tools]
        ELSE result

\* list_available_tools: the result dict; "error" is None when the key is
\* absent.  `tools` is what the selected backend lists.
list_available_tools(sid, cid, store, clients, outcome, tools) ==
    LET session_id == ToolSessionKey(sid, cid)
        selected_domain == DictGet(store, session_id, None)
        result == [NoAvailableTools EXCEPT
                      !.status             = "returned",
                      !.session_id         = session_id,
                      !.selected_domain    = selected_domain,
                      !.orchestrator_tools = V2_ORCHESTRATOR_TOOLS]
        domain_tool_names ==
            [i \in 1..Len(tools) |-> selected_domain \o "_" \o tools[i]]
    IN  IF Truthy(selected_domain) /\ selected_domain \in clients
        THEN CASE outcome = "raises_inside" ->
                    [result EXCEPT !.error = "exception"]
               [] outcome = "raises_on_exit" ->
                    [result EXCEPT !.domain_tools = domain_tool_names,
                                   !.error = "exception"]
               [] OTHER ->
                    [result EXCEPT !.domain_tools = domain_tool_names]
        ELSE result

\* A construction can fail for at most one domain here.
SetupFailures == {{}} \cup {{d} : d \in DOMAIN DOMAINS}

InitV2 ==
    /\ variant = "v2"
    /\ SESSION_DOMAIN = EmptyDict
    /\ response = NoRequest
    /\ acked = [k \in CallerSessions |-> None]
    /\ succeeded = {}
    /\ registry = DOMAINS
    /\ inflight = {}
    /\ DOMAIN_CLIENTS = {}
    /\ ready = NotWaiting
    /\ mounted = {}
    /\ pc = "setup"
    /\ silent = {}

\* __main__: setup_domain_clients(); setup_domain_servers(); main.run(...)
V2Setup(raising_clients, raising_mounts) ==
    /\ pc = "setup"
    /\ DOMAIN_CLIENTS' = setup_domain_clients(raising_clients)
    /\ mounted' = setup_domain_servers(raising_mounts)
    /\ pc' = "serving"
    /\ UNCHANGED <<variant, registry, SESSION_DOMAIN, response, acked,
                   succeeded, inflight, silent, ready>>

\* tools/call select_domain; the body is that of orchestrator_final.py.
V2SelectDomain(sid, cid, domain) ==
    LET out == final_select_domain(domain, sid, cid, SESSION_DOMAIN)
    IN  /\ Serving
        /\ Idle
        /\ SESSION_DOMAIN' = out.store
        /\ response' = [NoRequest EXCEPT
                !.kind   = "call_tool",
                !.sid    = sid,
                !.cid    = cid,
                !.tool   = "select_domain",
                !.arg    = domain,
                !.passed = TRUE,
                !.result = out.result]
        /\ UNCHANGED <<process, registry, acked, succeeded, inflight>>

\* tools/call list_available_tools.  `tools` is what the backend of the
\* session's selected domain lists when asked; when the handler makes no
\* call to a backend there is one outcome.
ListAvailableTools(sid, cid, outcome, tools) ==
    LET selected_domain ==
            DictGet(SESSION_DOMAIN, ToolSessionKey(sid, cid), None)
        calls == Truthy(selected_domain) /\ selected_domain \in DOMAIN_CLIENTS
    IN  /\ Serving
        /\ Idle
        /\ IF Truthy(selected_domain)
           THEN tools \in BackendListings(selected_domain)
           ELSE tools = <<>>
        /\ ~calls => outcome = "completes"
        /\ outcome = "raises_inside" => tools = <<>>
        /\ response' = [NoRequest EXCEPT
                !.kind       = "call_tool",
                !.sid        = sid,
                !.cid        = cid,
                !.tool       = "list_available_tools",
                !.arg        = outcome,
                !.passed     = TRUE,
                !.downstream = tools,
                !.result     = list_available_tools(sid, cid, SESSION_DOMAIN,
                                                    DOMAIN_CLIENTS, outcome,
                                                    tools)]
        /\ UNCHANGED <<process, registry, SESSION_DOMAIN, acked, succeeded,
                       inflight>>

NextV2 ==
    \/ \E rc \in SetupFailures, rm \in SetupFailures : V2Setup(rc, rm)
    \/ \E sid \in SessionIds, d \in DomainArgs : V2SelectDomain(sid, None, d)
    \/ \E sid \in SessionIds, outcome \in ClientOutcomes,
          tools \in UNION {BackendListings(d) : d \in DOMAIN DOMAINS} :
          ListAvailableTools(sid, None, outcome, tools)
    \/ Respond

SpecV2 == InitV2 /\ [][NextV2]_vars

----------------------------------------------------------------------------
(* test_orchestrator.py: wait_for_orchestrator_ready *)

\* for i in range(10): the number of port probes.
PortProbes == 10

\* Largest max_retries a caller passes here (the default is 15).
MaxRetries == 3

\* The gateway as the test script's peer: in `silent` it accepts the
\* connection of Client("http://127.0.0.1:9100/mcp") and never answers.
Gateway == "gateway"

InitWait ==
    /\ InitGlobals
    /\ mounted = DOMAIN DOMAINS
    /\ pc = "serving"
    /\ silent \in {{}, {Gateway}}

\* await wait_for_orchestrator_ready(max_retries)
StartWaiting(max_retries) ==
    /\ ready.pc = "idle"
    /\ ready' = [NotWaiting EXCEPT !.pc = "port", !.max_retries = max_retries]
    /\ UNCHANGED <<variant, mounted, pc, silent, DOMAIN_CLIENTS, registry,
                   SESSION_DOMAIN, response, acked, succeeded, inflight>>

\* One iteration of the first loop: check_port_open (a connect with a
\* timeout of one second) says the port is open and the loop is left, or
\* it says closed and the loop sleeps; after the last iteration the
\* loop's else branch returns False.  An empty second loop falls through
\* to the final return False.
ProbePort(open) ==
    /\ ready.pc = "port"
    /\ ready.i < PortProbes
    /\ ready' =
          IF open
          THEN IF ready.max_retries > 0
               THEN [ready EXCEPT !.pc = "mcp"]
               ELSE [ready EXCEPT !.pc = "done", !.result = FALSE]
          ELSE IF ready.i + 1 = PortProbes
               THEN [ready EXCEPT !.i = ready.i + 1,
                                  !.pc = "done", !.result = FALSE]
               ELSE [ready EXCEPT !.i = ready.i + 1]
    /\ UNCHANGED <<variant, mounted, pc, silent, DOMAIN_CLIENTS, registry,
                   SESSION_DOMAIN, response, acked, succeeded, inflight>>

\* One iteration of the second loop: the client connects and list_tools
\* answers (return True), or something raises; after the last failed
\* attempt the function returns False.  The await carries no timeout: a
\* gateway that stays silent lets it neither answer nor raise.
ConnectMCP(answers) ==
    /\ ready.pc = "mcp"
    /\ ready.attempt < ready.max_retries
    /\ Gateway \notin silent
    /\ ready' =
          IF answers
          THEN [ready EXCEPT !.connections = ready.connections + 1,
                             !.pc = "done", !.result = TRUE]
          ELSE IF ready.attempt + 1 = ready.max_retries
               THEN [ready EXCEPT !.connections = ready.connections + 1,
                                  !.attempt = ready.attempt + 1,
                                  !.pc = "done", !.result = FALSE]
               ELSE [ready EXCEPT !.connections = ready.connections + 1,
                                  !.attempt = ready.attempt + 1]
    /\ UNCHANGED <<variant, mounted, pc, silent, DOMAIN_CLIENTS, registry,
                   SESSION_DOMAIN, response, acked, succeeded, inflight>>

\* The caller has the result and may wait again.
Returned ==
    /\ ready.pc = "done"
    /\ ready' = NotWaiting
    /\ UNCHANGED <<variant, mounted, pc, silent, DOMAIN_CLIENTS, registry,
                   SESSION_DOMAIN, response, acked, succeeded, inflight>>

WaitStep ==
    \/ \E open \in BOOLEAN : ProbePort(open)
    \/ \E answers \in BOOLEAN : ConnectMCP(answers)

NextWait ==
    \/ \E max_retries \in 0..MaxRetries : StartWaiting(max_retries)
    \/ \E open \in BOOLEAN : ProbePort(open)
    \/ \E answers \in BOOLEAN : ConnectMCP(answers)
    \/ Returned

\* asyncio runs the coroutine whenever its awaited call has returned.
SpecWait == InitWait /\ [][NextWait]_vars /\ WF_vars(WaitStep)

----------------------------------------------------------------------------
(* Properties *)

\* C1: in both variants, an invocation of an operation that belongs to a
\* domain (is qualified with its name) other than the caller's currently
\* selected domain is rejected by the middleware and is not forwarded to
\* any backend.
C1_ScopeEnforcedOnInvocation ==
    response.kind = "call_tool" =>
        \A d \in DOMAIN DOMAINS :
            (/\ startswith(response.tool, d \o "_")
             /\ DictGet(SESSION_DOMAIN,
                        ToolSessionKey(response.sid, response.cid), None) # d)
            => /\ ~response.passed
               /\ response.error # None
               /\ response.forwarded = <<>>

\* A session that selected one domain had its invocation of another
\* domain's operation rejected.
C1_Witness ==
    /\ response.kind = "call_tool"
    /\ Truthy(response.sid)
    /\ response.sid \in DOMAIN SESSION_DOMAIN
    /\ response.tool \in AllMountedTools
    /\ response.tool \notin MountedTools(SESSION_DOMAIN[response.sid])
    /\ ~response.passed

\* C2: after select_domain(s, d) succeeded, a catalog listing for s contains
\* exactly the three built-ins plus all qualified operations d's backend
\* declares, and nothing else, in both variants.  (Stated for callers with
\* a transport session identifier, while d's backend is reachable.)
C2_ListingIsSelectedCatalog ==
    (/\ response.kind = "list_tools"
     /\ Truthy(response.sid)
     /\ acked[CallerSession(response.sid)] # None
     /\ Reachable(acked[CallerSession(response.sid)], response.downstream))
    => SeqToSet(response.tools) =
          ORCHESTRATOR_TOOLS \cup MountedTools(acked[CallerSession(response.sid)])

\* C3: select_domain with a name that is not a key of DOMAINS fails with an
\* unknown-domain error (ToolError or error result) and leaves every
\* session's selection as it was.
C3_UnknownDomainLeavesStore ==
    [][ (/\ response'.kind = "call_tool"
         /\ response'.tool = "select_domain"
         /\ response'.arg \notin DOMAIN DOMAINS)
        => /\ SESSION_DOMAIN' = SESSION_DOMAIN
           /\ response'.result.status # "success"
           /\ \/ response'.error = "invalid_domain"
              \/ /\ response'.result.status = "error"
                 /\ response'.result.message = "unknown_domain" ]_vars

\* A session with a selection asked for an unknown domain and was refused.
C3_Witness ==
    /\ response.kind = "call_tool"
    /\ response.tool = "select_domain"
    /\ response.arg = "nonexistent"
    /\ response.result.status # "success"
    /\ ToolSessionKey(response.sid, response.cid) \in DOMAIN SESSION_DOMAIN

\* C4: every value stored in SESSION_DOMAIN is a key of DOMAINS.
C4_SelectionInRegistry ==
    \A k \in DOMAIN SESSION_DOMAIN : SESSION_DOMAIN[k] \in DOMAIN DOMAINS

\* select_domain has just written the store, which holds several sessions.
C4_Witness ==
    /\ response.kind = "call_tool"
    /\ response.tool = "select_domain"
    /\ response.result.status = "success"
    /\ Cardinality(DOMAIN SESSION_DOMAIN) >= 2

\* C5: a request by one session changes nothing another session (one with a
\* different identifier) observes: its catalog listings, the middleware's
\* verdict on each of its invocations and its session status are the same
\* before and after the request.  (A request that leaves the store as it
\* was changes no observation, so only writing requests are compared.)
C5_SessionIsolation ==
    [][ \A b \in SessionIds :
          (/\ response'.kind # "init"
           /\ b # response'.sid
           /\ SESSION_DOMAIN' # SESSION_DOMAIN)
          => /\ \A ds \in DownstreamCatalogs :
                    on_list_tools(variant, ds, MiddlewareSessionId(b),
                                  SESSION_DOMAIN')
                  = on_list_tools(variant, ds, MiddlewareSessionId(b),
                                  SESSION_DOMAIN)
             /\ \A t \in ToolNames :
                    on_call_tool(variant, t, MiddlewareSessionId(b),
                                 SESSION_DOMAIN')
                  = on_call_tool(variant, t, MiddlewareSessionId(b),
                                 SESSION_DOMAIN)
             /\ \A c \in ClientIds :
                    get_session_status(variant, b, c, SESSION_DOMAIN')
                  = get_session_status(variant, b, c, SESSION_DOMAIN) ]_vars

\* Session s1 has just selected a domain while s2 holds a different one.
C5_Witness ==
    /\ response.kind = "call_tool"
    /\ response.tool = "select_domain"
    /\ response.result.status = "success"
    /\ response.sid = "s1"
    /\ "s2" \in DOMAIN SESSION_DOMAIN
    /\ SESSION_DOMAIN["s2"] # response.arg

\* C6: once select_domain(d) returned success to a session, every catalog
\* listing and every invocation by that session, until its next
\* select_domain call, is scoped to d: the listing shows operations of d and
\* of no other domain, and the middleware judges an invocation against d.
C6_ReadYourWrites ==
    (response.kind # "init" /\ acked[CallerSession(response.sid)] # None) =>
        LET d == acked[CallerSession(response.sid)]
            listed == SeqToSet(response.tools) \ ORCHESTRATOR_TOOLS
        IN  /\ response.kind = "list_tools" =>
                /\ Reachable(d, response.downstream) => listed # {}
                /\ \A t \in listed : startswith(t, d \o "_")
            /\ (response.kind = "call_tool"
                    /\ response.tool \notin ORCHESTRATOR_TOOLS) =>
                IF response.passed
                THEN startswith(response.tool, d \o "_")
                ELSE response.err_domain = d

\* C7: a caller without a transport session identifier is the session
\* "default" for every kind of request: its select_domain(d) is stored
\* under "default", and listings and invocations by such callers are then
\* scoped to d.  (Stated for callers that supply no client identifier
\* either.)
C7_AnonymousIsDefaultSession ==
    (/\ response.kind # "init"
     /\ ~Truthy(response.sid)
     /\ ~Truthy(response.cid)) =>
        /\ (response.tool = "select_domain"
                /\ response.result.status = "success") =>
              DictGet(SESSION_DOMAIN, "default", None) = response.arg
        /\ acked["default"] # None =>
              LET d == acked["default"]
                  listed == SeqToSet(response.tools) \ ORCHESTRATOR_TOOLS
              IN  /\ response.kind = "list_tools" =>
                      /\ Reachable(d, response.downstream) => listed # {}
                      /\ \A t \in listed : startswith(t, d \o "_")
                  /\ (response.kind = "call_tool"
                          /\ response.tool \in MountedTools(d)) =>
                      response.error \notin {"not_available_for_session",
                                             "no_domain_selected"}

\* C8: every catalog listing contains the three built-ins, whatever the
\* caller's session state.
C8_BuiltinsAlwaysListed ==
    response.kind = "list_tools" =>
        ORCHESTRATOR_TOOLS \subseteq SeqToSet(response.tools)

\* A session with a selected domain listed its catalog.
C8_Witness ==
    /\ response.kind = "list_tools"
    /\ Truthy(response.sid)
    /\ response.sid \in DOMAIN SESSION_DOMAIN
    /\ Len(response.tools) > Cardinality(ORCHESTRATOR_TOOLS)

\* C9: a session that never got a success from select_domain is Unselected:
\* its listing is exactly the built-ins and get_session_status reports no
\* selected domain with status "no_domain_selected".
C9_NeverSelectedIsUnselected ==
    (response.kind # "init" /\ CallerSession(response.sid) \notin succeeded) =>
        /\ response.kind = "list_tools" =>
              SeqToSet(response.tools) = ORCHESTRATOR_TOOLS
        /\ response.tool = "get_session_status" =>
              /\ response.result.selected_domain = None
              /\ response.result.status = "no_domain_selected"

\* C10: an invocation of a built-in passes the middleware and is executed,
\* in every session state.
C10_BuiltinsNeverGated ==
    (response.kind = "call_tool" /\ response.tool \in ORCHESTRATOR_TOOLS) =>
        /\ response.passed
        /\ response.error \notin {"not_available_for_session",
                                  "no_domain_selected",
                                  "not_available_in_domain"}
        /\ \/ response.result.status # None
           \/ response.error \in {"invalid_domain", "notification_failed"}

\* A caller without session identifier had get_session_status executed.
C10_Witness ==
    /\ response.kind = "call_tool"
    /\ response.tool = "get_session_status"
    /\ ~Truthy(response.sid)
    /\ response.passed
    /\ response.result.status = "no_domain_selected"


----------------------------------------------------------------------------
\* The content by which a client recognises "no domain selected":
\* orchestrator_final.py raises "No domain selected. Use select_domain
\* first."; orchestrator.py raises its single message with
\* "Current domain: none".
NoDomainSelectedError(r) ==
    \/ r.error = "no_domain_selected"
    \/ r.error = "not_available_for_session" /\ r.err_domain = "none"

----------------------------------------------------------------------------
\* C12: when a session with selected domain d invokes an operation whose
\* name does not begin with "d_", the rejection names d as the selected
\* domain and carries the full set of operations in scope for d.
C12_RejectionCarriesScope ==
    (/\ response.kind = "call_tool"
     /\ response.tool \notin ORCHESTRATOR_TOOLS
     /\ Truthy(response.sid)
     /\ response.sid \in DOMAIN SESSION_DOMAIN) =>
        LET d == SESSION_DOMAIN[response.sid] IN
        ~startswith(response.tool, d \o "_") =>
            /\ ~response.passed
            /\ response.err_domain = d
            /\ response.err_tools = MountedTools(d)

\* C13: for a session with selected domain d, every operation d's backend
\* declares, invoked as "d_<name>", passes the middleware and is forwarded
\* to d's backend, in both variants.
C13_SelectedOperationsForwarded ==
    (/\ response.kind = "call_tool"
     /\ Truthy(response.sid)
     /\ response.sid \in DOMAIN SESSION_DOMAIN) =>
        LET d == SESSION_DOMAIN[response.sid] IN
        \A n \in SeqToSet(BackendTools[d]) :
            response.tool = MountedName(d, n) =>
                /\ response.passed
                /\ response.error = None
                /\ response.forwarded = <<d, n>>

\* C14: a successful select_domain is followed by a capability-list-changed
\* notification, in every variant.
C14_SelectionNotifies ==
    (/\ response.kind = "call_tool"
     /\ response.tool = "select_domain"
     /\ response.result.status = "success") =>
        "tool_list_changed" \in SeqToSet(response.notifications)


----------------------------------------------------------------------------
\* C15: the store changes only through a successful select_domain:
\* list_domains, get_session_status, listing, invocation and a failed
\* select_domain leave SESSION_DOMAIN unchanged, and a successful
\* select_domain(s, d) changes no entry but that of s.
C15_StoreChangesOnlyBySelect ==
    [][IF /\ response'.kind = "call_tool"
          /\ response'.tool = "select_domain"
          /\ response'.result.status = "success"
       THEN LET key == ToolSessionKey(response'.sid, response'.cid) IN
            /\ DOMAIN SESSION_DOMAIN' = (DOMAIN SESSION_DOMAIN) \cup {key}
            /\ SESSION_DOMAIN'[key] = response'.arg
            /\ \A k \in (DOMAIN SESSION_DOMAIN) \ {key} :
                   SESSION_DOMAIN'[k] = SESSION_DOMAIN[k]
       ELSE SESSION_DOMAIN' = SESSION_DOMAIN]_vars


----------------------------------------------------------------------------
\* C16: there is no deselect: a session that has a selected domain has
\* some selected domain after every later operation.
C16_NoDeselect ==
    [][\A k \in DOMAIN SESSION_DOMAIN :
           /\ k \in DOMAIN SESSION_DOMAIN'
           /\ SESSION_DOMAIN'[k] \in DOMAIN DOMAINS]_vars

\* Both sessions have a selection and one of them, after a later request
\* of its own, is still reported as active.
C16_Witness ==
    /\ response.kind = "call_tool"
    /\ response.tool = "get_session_status"
    /\ response.sid = "s2"
    /\ response.result.status = "active"
    /\ {"s1", "s2"} \subseteq DOMAIN SESSION_DOMAIN


----------------------------------------------------------------------------
\* C17: a later successful select_domain overwrites the earlier one: when
\* select_domain(s, d2) succeeds for a session whose previous select_domain
\* succeeded with d1 # d2, the session's selection is d2, its listing (all
\* backends reachable) contains d2's operations and none of d1's, and an
\* invocation of any of d1's operations is rejected.
C17_LaterSelectionOverwrites ==
    [][(/\ response'.kind = "call_tool"
        /\ response'.tool = "select_domain"
        /\ response'.result.status = "success"
        /\ acked[CallerSession(response'.sid)] \notin {None, response'.arg})
       => LET sid == response'.sid
              cid == response'.cid
              d1  == acked[CallerSession(sid)]
              d2  == response'.arg
          IN  /\ get_session_status(variant, sid, cid,
                                    SESSION_DOMAIN').selected_domain = d2
              /\ \A ds \in FullCatalogs :
                    LET listed == SeqToSet(on_list_tools(variant, ds,
                                              MiddlewareSessionId(sid),
                                              SESSION_DOMAIN'))
                    IN  /\ MountedTools(d2) \subseteq listed
                        /\ listed \cap MountedTools(d1) = {}
              /\ \A t \in MountedTools(d1) :
                    ~on_call_tool(variant, t, MiddlewareSessionId(sid),
                                  SESSION_DOMAIN').passed]_vars


----------------------------------------------------------------------------
\* C18: list_domains returns the registry's domain names in lexicographic
\* order, and the same sequence in every state and for every session.
C18_ListDomainsSorted ==
    (response.kind = "call_tool" /\ response.tool = "list_domains") =>
        /\ response.passed
        /\ response.result.domains = <<"invoicing", "products", "users">>
        /\ SeqToSet(response.result.domains) = DOMAIN DOMAINS

\* list_domains answered a session that has a selection while another
\* session has a different one.
C18_Witness ==
    /\ response.kind = "call_tool"
    /\ response.tool = "list_domains"
    /\ response.sid = "s1"
    /\ "s1" \in DOMAIN SESSION_DOMAIN
    /\ "s2" \in DOMAIN SESSION_DOMAIN
    /\ SESSION_DOMAIN["s1"] # SESSION_DOMAIN["s2"]
    /\ Len(response.result.domains) = 3


----------------------------------------------------------------------------
\* C19: get_session_status returns, for the calling session, selected_domain
\* equal to the domain of the session's most recent successful select_domain
\* (absent if there was none), status "active" exactly when a domain is
\* selected, and available_domains equal to the result of list_domains.
\* (Stated for callers with a transport session identifier.)
C19_StatusReflectsSelection ==
    (/\ response.kind = "call_tool"
     /\ response.tool = "get_session_status"
     /\ Truthy(response.sid)) =>
        LET k == CallerSession(response.sid)
            r == response.result
        IN  /\ response.passed
            /\ k \notin succeeded => r.selected_domain = None
            /\ acked[k] # None => r.selected_domain = acked[k]
            /\ r.status = "active" <=> r.selected_domain # None
            /\ r.status \in {"active", "no_domain_selected"}
            /\ r.available_domains = list_domains.domains


----------------------------------------------------------------------------
\* C20: while the backend of a session's selected domain is unavailable, a
\* catalog listing for that session still succeeds and returns the
\* built-ins, without that domain's operations.
C20_ListingSurvivesBackendOutage ==
    (/\ response.kind = "list_tools"
     /\ Truthy(response.sid)
     /\ response.sid \in DOMAIN SESSION_DOMAIN
     /\ ~Reachable(SESSION_DOMAIN[response.sid], response.downstream)) =>
        /\ response.passed
        /\ response.error = None
        /\ SeqToSet(response.tools) = ORCHESTRATOR_TOOLS
        /\ Len(response.tools) = Cardinality(ORCHESTRATOR_TOOLS)

\* A session with selection products listed while the products backend was
\* down and the other two backends were up.
C20_Witness ==
    /\ response.kind = "list_tools"
    /\ response.sid = "s1"
    /\ DictGet(SESSION_DOMAIN, "s1", None) = "products"
    /\ ~Reachable("products", response.downstream)
    /\ Reachable("invoicing", response.downstream)
    /\ Reachable("users", response.downstream)
    /\ SeqToSet(response.tools) = ORCHESTRATOR_TOOLS


----------------------------------------------------------------------------
\* C21: partial availability: while the backend of a domain d1 is
\* unavailable, a catalog listing for a session whose selected domain is
\* d2 # d1, with d2's backend reachable, contains all of d2's operations
\* and none of d1's.
C21_PartialAvailability ==
    (/\ response.kind = "list_tools"
     /\ Truthy(response.sid)
     /\ response.sid \in DOMAIN SESSION_DOMAIN) =>
        LET d2 == SESSION_DOMAIN[response.sid]
            listed == SeqToSet(response.tools)
        IN  \A d1 \in (DOMAIN DOMAINS) \ {d2} :
                (~Reachable(d1, response.downstream)
                    /\ Reachable(d2, response.downstream)) =>
                    /\ response.error = None
                    /\ MountedTools(d2) \subseteq listed
                    /\ listed \cap MountedTools(d1) = {}


----------------------------------------------------------------------------
\* C22: every invocation and every catalog listing eventually returns a
\* result or an error to the caller, even if a backend never answers.
C22_RequestsReturn ==
    \A r \in RequestRecords :
        (r.kind \in {"list_tools", "call_tool"} /\ r \in inflight)
            ~> (r \notin inflight)

\* C23: a backend that never answers does not stall other sessions: a
\* listing by a session whose selection is another domain (or none), and
\* an invocation forwarded to another domain's backend, complete.
C23_SilentBackendStallsNoOne ==
    \A r \in RequestRecords :
        (/\ r \in inflight
         /\ r.kind \in {"list_tools", "call_tool"}
         /\ DictGet(SESSION_DOMAIN, r.sid, None) \notin silent
         /\ r.kind = "call_tool" => MountOf(r.arg)[1] \notin silent)
            ~> (r \notin inflight)

\* C24: under any interleaving of concurrent requests, the store holds for
\* each session nothing or a registry domain (what any read then observes),
\* an entry changes only in the write of a select_domain call of that very
\* session and becomes exactly that call's domain, and no entry disappears.
C24_AtomicSelection ==
    [][/\ \A k \in DOMAIN SESSION_DOMAIN' :
             /\ SESSION_DOMAIN'[k] \in DOMAIN DOMAINS
             /\ get_session_status(variant, k, None,
                                   SESSION_DOMAIN').selected_domain
                    = SESSION_DOMAIN'[k]
             /\ (k \notin DOMAIN SESSION_DOMAIN
                    \/ SESSION_DOMAIN'[k] # SESSION_DOMAIN[k]) =>
                  \E r \in inflight \ inflight' :
                      /\ r.kind = "select_domain"
                      /\ r.stage = "call_next"
                      /\ r.sid = k
                      /\ r.arg = SESSION_DOMAIN'[k]
       /\ \A r \in inflight \ inflight' :
             (/\ r.kind = "select_domain"
              /\ r.stage = "call_next"
              /\ r.arg \in DOMAIN DOMAINS) => SESSION_DOMAIN'[r.sid] = r.arg
       /\ DOMAIN SESSION_DOMAIN \subseteq DOMAIN SESSION_DOMAIN']_vars

\* Two select_domain calls of one session are in flight at once, the first
\* has written and awaits its notifications, the second has not run yet.
C24_Witness ==
    /\ Request("select_domain", "s1", "invoicing", "notify") \in inflight
    /\ Request("select_domain", "s1", "products", "call_next") \in inflight
    /\ DictGet(SESSION_DOMAIN, "s1", None) = "invoicing"

----------------------------------------------------------------------------
\* C25: a catalog listing is returned in deterministic order: built-ins
\* first, then the selected domain's operations, each group sorted by
\* name, whatever order the downstream catalog delivered the tools in.
C25_ListingOrder ==
    response.kind = "list_tools" =>
        LET listed == SeqToSet(response.tools)
        IN  response.tools = sorted(listed \cap ORCHESTRATOR_TOOLS)
                                \o sorted(listed \ ORCHESTRATOR_TOOLS)


----------------------------------------------------------------------------
\* C26: qualified names cannot collide across domains: an operation of
\* domain d1 qualified as "d1_<name>", for any backend name (the separator
\* included), is not the qualified name of an operation of another registry
\* domain d2, does not pass the scope check of a session that selected d2,
\* and is not a built-in's name.
C26_QualifiedNamesDisjoint ==
    response.kind = "qualify" =>
        /\ response.tool \notin ORCHESTRATOR_TOOLS
        /\ \A d2 \in (DOMAIN DOMAINS) \ {response.arg} :
              /\ ~startswith(response.tool, d2 \o "_")
              /\ ~is_allowed_tool(response.tool, "s1", DictPut(EmptyDict, "s1", d2))
              /\ \A n2 \in BackendNames : MountedName(d2, n2) # response.tool
        /\ is_allowed_tool(response.tool, "s1",
                           DictPut(EmptyDict, "s1", response.arg))

\* A products operation whose own name begins with another domain's name
\* and the separator was qualified.
C26_Witness ==
    /\ response.kind = "qualify"
    /\ response.arg = "products"
    /\ response.tool = "products_users_get"


----------------------------------------------------------------------------
\* C27: the registry is fixed for the process lifetime: no gateway
\* operation (mounting, health check, select_domain, listing, invocation,
\* status) adds, removes or changes an entry of DOMAINS.
C27_RegistryFixed ==
    /\ registry = DOMAINS
    /\ DOMAIN registry = {"invoicing", "products", "users"}

\* select_domain was called with a name the registry does not have, by a
\* session that has a selection, after startup.
C27_Witness ==
    /\ pc = "serving"
    /\ response.kind = "call_tool"
    /\ response.tool = "select_domain"
    /\ response.arg = "nonexistent"
    /\ response.sid \in DOMAIN SESSION_DOMAIN
    /\ mounted # DOMAIN DOMAINS

\* C28: no backend is treated as permanently dead: a session that selected
\* a registry domain can list and invoke that domain's operations whenever
\* its backend is reachable, whether or not it was reachable when the
\* gateway started.  (Stated for operations the middleware passes.)
C28_NoPermanentlyDeadBackend ==
    (/\ Serving
     /\ Truthy(response.sid)
     /\ response.sid \in DOMAIN SESSION_DOMAIN) =>
        LET d == SESSION_DOMAIN[response.sid] IN
        /\ (/\ response.kind = "call_tool"
            /\ response.tool \in MountedTools(d)
            /\ response.passed)
              => (/\ response.error # "unknown_tool"
                  /\ response.forwarded # <<>>)
        /\ (/\ response.kind = "list_tools"
            /\ variant = "orchestrator"
            /\ \A m \in mounted : Reachable(m, response.downstream))
              => MountedTools(d) \subseteq SeqToSet(response.tools)

\* C29: check_domain_servers always terminates and returns a map with
\* exactly one boolean entry per registry domain, true exactly for the
\* backends that answered list_tools.
C29_HealthCheckCompletes ==
    /\ [](response.kind = "check_domain_servers" =>
            LET health == response.result.health IN
            /\ DOMAIN health = DOMAIN DOMAINS
            /\ \A d \in DOMAIN DOMAINS :
                  /\ health[d] \in BOOLEAN
                  /\ health[d] <=> d \in response.result.answered)
    /\ (pc = "check") ~> (pc = "serving")

----------------------------------------------------------------------------
\* C30: for a request without session identifier the scope filter allows
\* only the built-ins and denies every domain tool, whatever the session
\* store contains.
C30_NoSessionOnlyBuiltins ==
    (response.kind \in {"list_tools", "call_tool"} /\ ~Truthy(response.sid)) =>
        /\ response.kind = "list_tools" =>
              SeqToSet(response.tools) = ORCHESTRATOR_TOOLS
        /\ (response.kind = "call_tool"
                /\ response.tool \notin ORCHESTRATOR_TOOLS) =>
              (~response.passed /\ response.forwarded = <<>>)
        /\ (response.kind = "call_tool"
                /\ response.tool \in ORCHESTRATOR_TOOLS) => response.passed

\* A caller without session identifier was denied an invoicing operation
\* while the store holds invoicing under "default" and under a session.
C30_Witness ==
    /\ response.kind = "call_tool"
    /\ response.tool = "invoicing_get_invoice"
    /\ ~Truthy(response.sid)
    /\ ~response.passed
    /\ DictGet(SESSION_DOMAIN, "default", None) = "invoicing"
    /\ DictGet(SESSION_DOMAIN, "s1", None) = "invoicing"

----------------------------------------------------------------------------
\* C32 (as stated): for every session and every tool name, the name is in
\* the session's filtered listing exactly if an invocation of it by that
\* session passes the middleware's check.
C32_ListingAgreesWithInvocation ==
    response.kind = "list_tools" =>
        \A t \in ToolNames :
            t \in SeqToSet(response.tools)
                <=> on_call_tool(variant, t, MiddlewareSessionId(response.sid),
                                 SESSION_DOMAIN).passed

\* C32 (amended): among the names the downstream listing delivered, a name
\* is in the session's filtered listing exactly if an invocation of it by
\* that session passes the middleware's check.  (The check also passes
\* names the listing never saw: a tool of the selected domain whose
\* backend is down, or a name that exists on no backend.)
C32_ListedIffInvocable ==
    response.kind = "list_tools" =>
        \A t \in SeqToSet(response.downstream) :
            t \in SeqToSet(response.tools)
                <=> on_call_tool(variant, t, MiddlewareSessionId(response.sid),
                                 SESSION_DOMAIN).passed

\* A listing for a session with a selection, from a downstream catalog
\* that holds the selected domain and another one: at least one delivered
\* name is kept and one is dropped.
C32_Witness ==
    /\ response.kind = "list_tools"
    /\ Truthy(response.sid)
    /\ DictGet(SESSION_DOMAIN, response.sid, None) = "invoicing"
    /\ "invoicing_create_invoice" \in SeqToSet(response.tools)
    /\ "users_get_user" \in SeqToSet(response.downstream)
    /\ "users_get_user" \notin SeqToSet(response.tools)

----------------------------------------------------------------------------
\* C33: for a request that carries a session identifier, get_session_status
\* reports under the key the middleware uses, and the selection it reports
\* is the one the middleware enforces: a non-built-in tool passes the check
\* only if it belongs to the reported domain, and when a domain is reported
\* some tool of it passes.
C33_StatusKeyIsMiddlewareKey ==
    (/\ response.kind = "call_tool"
     /\ response.tool = "get_session_status"
     /\ response.passed
     /\ Truthy(response.sid)) =>
        LET key == MiddlewareSessionId(response.sid)
            sel == response.result.selected_domain
            Passes(t) == on_call_tool(variant, t, key, SESSION_DOMAIN).passed
        IN  /\ response.result.session_id = key
            /\ sel = DictGet(SESSION_DOMAIN, key, None)
            /\ \A t \in ToolNames \ ORCHESTRATOR_TOOLS :
                  Passes(t) => Truthy(sel) /\ startswith(t, sel \o "_")
            /\ Truthy(sel) => \E t \in MountedTools(sel) : Passes(t)

\* A caller with both a session and a client identifier reads its status
\* after selecting a domain.
C33_Witness ==
    /\ response.kind = "call_tool"
    /\ response.tool = "get_session_status"
    /\ response.sid = "s1"
    /\ response.cid = "c1"
    /\ response.result.selected_domain = "products"
    /\ response.result.status = "active"

----------------------------------------------------------------------------
\* C35: in orchestrator.py, a select_domain call that does not return
\* success leaves the session store as it was, also when one of the
\* list-changed notifications fails after the domain was validated.
C35_FailedSelectLeavesStore ==
    [][(/\ variant = "orchestrator"
        /\ response'.kind = "call_tool"
        /\ response'.tool = "select_domain"
        /\ response' # response
        /\ response'.result.status # "success")
           => SESSION_DOMAIN' = SESSION_DOMAIN]_vars

----------------------------------------------------------------------------
\* C36: a select_domain call that fails with an unknown domain emits no
\* list-changed notification; whenever a call emitted one, the store holds
\* the requested domain under the caller's key.
C36_NotifyOnlyAfterWrite ==
    (/\ response.kind = "call_tool"
     /\ response.tool = "select_domain"
     /\ response.passed) =>
        /\ response.arg \notin DOMAIN DOMAINS =>
              /\ response.result.status # "success"
              /\ response.notifications = <<>>
        /\ response.notifications # <<>> =>
              DictGet(SESSION_DOMAIN,
                      ToolSessionKey(response.sid, response.cid), None)
                  = response.arg

\* orchestrator.py rejected an unknown domain for a session that has a
\* selection.
C36_Witness ==
    /\ variant = "orchestrator"
    /\ response.kind = "call_tool"
    /\ response.tool = "select_domain"
    /\ response.arg = "nonexistent"
    /\ response.error = "invalid_domain"
    /\ DictGet(SESSION_DOMAIN,
               ToolSessionKey(response.sid, response.cid), None) = "users"

----------------------------------------------------------------------------
\* C37: in orchestrator_final.py every stored selection is a key of
\* DOMAIN_TOOLS, so the branch of on_call_tool that passes a tool without
\* consulting a whitelist is never taken: a non-built-in invocation passes
\* only if its name is in the whitelist of the session's selected domain.
C37_FallThroughUnreachable ==
    variant = "final" =>
        /\ \A k \in DOMAIN SESSION_DOMAIN :
              SESSION_DOMAIN[k] \in DOMAIN DOMAIN_TOOLS
        /\ (/\ response.kind = "call_tool"
            /\ response.passed
            /\ response.tool \notin ORCHESTRATOR_TOOLS) =>
              LET session_id == MiddlewareSessionId(response.sid)
              IN  /\ Truthy(session_id)
                  /\ session_id \in DOMAIN SESSION_DOMAIN
                  /\ response.tool \in DOMAIN_TOOLS[SESSION_DOMAIN[session_id]]

\* orchestrator_final.py passed an invocation of a domain tool.
C37_Witness ==
    /\ variant = "final"
    /\ response.kind = "call_tool"
    /\ response.tool = "users_get_user"
    /\ response.passed
    /\ response.forwarded # <<>>

----------------------------------------------------------------------------
\* C38: in orchestrator_final.py every name in DOMAIN_TOOLS[d] begins with
\* "d_", the whitelists of different domains are disjoint and none holds a
\* built-in name; so a listing never shows a session a tool that carries
\* the prefix of a domain other than the one it selected.
C38_WhitelistsWellFormed ==
    variant = "final" =>
        /\ \A d \in DOMAIN DOMAIN_TOOLS :
              /\ DOMAIN_TOOLS[d] \cap ORCHESTRATOR_TOOLS = {}
              /\ \A t \in DOMAIN_TOOLS[d] : startswith(t, d \o "_")
              /\ \A e \in DOMAIN DOMAIN_TOOLS :
                    e # d => DOMAIN_TOOLS[d] \cap DOMAIN_TOOLS[e] = {}
        /\ response.kind = "list_tools" =>
              \A t \in SeqToSet(response.tools) \ ORCHESTRATOR_TOOLS :
                  LET sel == DictGet(SESSION_DOMAIN,
                                     MiddlewareSessionId(response.sid), None)
                  IN  /\ Truthy(sel)
                      /\ startswith(t, sel \o "_")
                      /\ \A e \in DOMAIN DOMAINS :
                            e # sel => ~startswith(t, e \o "_")

\* orchestrator_final.py listed tools for a session that selected users,
\* from a downstream catalog that also held invoicing's tools.
C38_Witness ==
    /\ variant = "final"
    /\ response.kind = "list_tools"
    /\ Truthy(response.sid)
    /\ DictGet(SESSION_DOMAIN, response.sid, None) = "users"
    /\ "invoicing_get_invoice" \in SeqToSet(response.downstream)
    /\ "users_get_user" \in SeqToSet(response.tools)

----------------------------------------------------------------------------
\* C34: in the step in which an invocation is sent to the backend of
\* domain d, the calling session's selected domain is d, also when a
\* select_domain of the same session ran after the middleware's check.
C34_DispatchMatchesSelection ==
    [][\A r \in inflight \ inflight' :
          (/\ r.kind = "call_tool"
           /\ r.stage = "call_next"
           /\ [r EXCEPT !.stage = "backend"] \in inflight')
              => DictGet(SESSION_DOMAIN, MiddlewareSessionId(r.sid), None)
                     = MountOf(r.arg)[1]]_vars

----------------------------------------------------------------------------
\* C31 (as stated): list_available_tools of orchestrator_v2.py returns, with
\* domain_tools empty when the session has no selection or the call to the
\* selected backend fails (then with an error), and otherwise exactly the
\* prefixed names of the tools the selected backend lists; no name of
\* another domain appears.
C31_AvailableToolsOfSelection ==
    (response.kind = "call_tool" /\ response.tool = "list_available_tools") =>
        LET r   == response.result
            sel == r.selected_domain
            listed == [i \in 1..Len(response.downstream) |->
                          MountedName(sel, response.downstream[i])]
        IN  /\ r.status = "returned"
            /\ IF ~Truthy(sel)
               THEN r.domain_tools = <<>>
               ELSE IF response.arg # "completes"
               THEN r.domain_tools = <<>> /\ r.error # None
               ELSE r.domain_tools = listed
            /\ \A t \in SeqToSet(r.domain_tools), e \in DOMAIN DOMAINS :
                  e # sel => ~startswith(t, e \o "_")

\* C31 (amended): list_available_tools returns, with domain_tools empty and
\* no error when the session has no selection or DOMAIN_CLIENTS has no
\* client for the selected domain, and empty with an error when entering
\* the client or list_tools raises; when the backend lists its tools,
\* domain_tools is exactly their prefixed names, with an error only if
\* leaving the client then raises; no name of another domain appears.
C31_AvailableToolsOfClient ==
    (response.kind = "call_tool" /\ response.tool = "list_available_tools") =>
        LET r   == response.result
            sel == r.selected_domain
            listed == [i \in 1..Len(response.downstream) |->
                          MountedName(sel, response.downstream[i])]
        IN  /\ r.status = "returned"
            /\ IF ~Truthy(sel) \/ sel \notin DOMAIN_CLIENTS
               THEN r.domain_tools = <<>> /\ r.error = None
               ELSE CASE response.arg = "raises_inside" ->
                           r.domain_tools = <<>> /\ r.error # None
                      [] response.arg = "raises_on_exit" ->
                           r.domain_tools = listed /\ r.error # None
                      [] OTHER ->
                           r.domain_tools = listed /\ r.error = None
            /\ \A t \in SeqToSet(r.domain_tools), e \in DOMAIN DOMAINS :
                  e # sel => ~startswith(t, e \o "_")

\* A session that selected products asked and the backend listed its
\* three tools.
C31_Witness ==
    /\ response.kind = "call_tool"
    /\ response.tool = "list_available_tools"
    /\ response.sid = "s1"
    /\ response.arg = "completes"
    /\ response.result.selected_domain = "products"
    /\ Len(response.result.domain_tools) = 3
    /\ response.result.domain_tools[1] = "products_search_products"

----------------------------------------------------------------------------
\* C39: wait_for_orchestrator_ready always terminates: it returns False
\* after 10 failed port probes without any MCP connection, otherwise it
\* makes at most max_retries MCP connection attempts and returns True at
\* the first list_tools that answers and False once all attempts failed.
C39_WaitTerminatesWithinBounds ==
    /\ [](/\ ready.i <= PortProbes
          /\ ready.connections <= ready.max_retries
          /\ ready.connections > 0 => ready.i < PortProbes
          /\ ready.pc = "done" =>
                /\ ready.result \in BOOLEAN
                /\ ready.i = PortProbes =>
                      ready.result = FALSE /\ ready.connections = 0
                /\ ready.result = TRUE =>
                      ready.connections = ready.attempt + 1
                /\ (ready.result = FALSE /\ ready.i < PortProbes) =>
                      /\ ready.attempt = ready.max_retries
                      /\ ready.connections = ready.max_retries)
    /\ (ready.pc \in {"port", "mcp"}) ~> (ready.pc = "done")

====
